---- MODULE Spec2Model ----
(***************************************************************************)
(* A model of mat.Einsum (src/mat/einsum.go): the subscript parser, the    *)
(* dimension resolver, the counter ("odometer") executor, the output index *)
(* projection and the drive loop.  Strings are sequences of one-character  *)
(* strings; float64 values are modelled as exact integers.                 *)
(***************************************************************************)
EXTENDS Integers, Sequences, FiniteSets, TLC

\* ------------------------------------------------------------------ bounds

\* Largest row or column count of an operand matrix.
MaxDim == 2
\* Largest number of operands passed to one call of Einsum.
MaxOperands == 2
\* Longest subscript string the rune reader delivers to the parser (SpecParse).
MaxLen == 6
\* Cap on the number of drive-loop iterations explored in one call.
MaxIter == 30

\* --------------------------------------------------------- runes and modes

\* unicode.IsLetter holds of these runes.
Letters == {"i", "j", "k"}
\* unicode.IsSpace holds of these runes.
Spaces == {" "}
\* The runes the reader can deliver: letters, separators, a space, a digit.
Chars == {"i", "j", ",", "-", ">", " ", "1"}

opsParseModeNewInput == 0
opsParseModeGrowInput == 1
opsParseModeOutput == 2

\* The einsumOps value parseEinsum starts from, with the parser's mode and
\* its panic, if any, carried along.
NewOps ==
    [seq |-> <<>>, all |-> {}, free |-> {}, inputs |-> <<>>, output |-> <<>>,
     mode |-> opsParseModeNewInput, err |-> "none"]

\* einsumOps.last: the last rune recorded in seq, the zero rune when empty.
last(o) == IF Len(o.seq) = 0 THEN "NUL" ELSE o.seq[Len(o.seq)]

\* The body of parseEinsum's loop for letter r: record it in all and slot it
\* into the place the mode names.
SlotLetter(o, r) ==
    LET o1 == [o EXCEPT !.all = @ \cup {r}]
    IN  IF o.mode = opsParseModeNewInput
        THEN [o1 EXCEPT !.inputs = Append(@, <<r>>),
                        !.mode = opsParseModeGrowInput]
        ELSE IF o.mode = opsParseModeGrowInput
        THEN [o1 EXCEPT !.inputs[Len(o.inputs)] = Append(@, r)]
        ELSE [o1 EXCEPT !.free = @ \cup {r}, !.output = Append(@, r)]

\* One turn of parseEinsum's loop on rune r.
ParseRune(o, r) ==
    IF r = ","
    THEN [o EXCEPT !.mode = opsParseModeNewInput, !.seq = Append(@, r)]
    ELSE IF r = "-"
    THEN [o EXCEPT !.seq = Append(@, r)]
    ELSE IF r = ">"
    THEN IF last(o) # "-"
         THEN [o EXCEPT !.err = "parse"]
         ELSE [o EXCEPT !.mode = opsParseModeOutput, !.seq = Append(@, r)]
    ELSE IF r \in Spaces
    THEN o
    ELSE IF r \notin Letters
    THEN [o EXCEPT !.err = "parse"]
    ELSE [SlotLetter(o, r) EXCEPT !.seq = Append(@, r)]

RECURSIVE ParseFrom(_, _)
\* parseEinsum's loop from state o over the runes s, stopping at a panic.
ParseFrom(o, s) ==
    IF s = <<>> \/ o.err # "none" THEN o
    ELSE ParseFrom(ParseRune(o, Head(s)), Tail(s))

\* parseEinsum(subscripts).
parseEinsum(s) == ParseFrom(NewOps, s)

RECURSIVE Concat(_)
\* The runes of a sequence of rune sequences, one after the other.
Concat(ss) == IF ss = <<>> THEN <<>> ELSE Head(ss) \o Concat(Tail(ss))

\* String with ',' written after every input, the last one too.
StringCommaAfterEach(o) ==
    Concat([x \in 1..Len(o.inputs) |-> o.inputs[x] \o <<",">>])
    \o <<"-", ">">> \o o.output

\* einsumOps.String: the inputs joined by ',', then "->", then the output.
String(o) ==
    Concat([x \in 1..Len(o.inputs) |->
              IF x < Len(o.inputs) THEN o.inputs[x] \o <<",">> ELSE o.inputs[x]])
    \o <<"-", ">">> \o o.output

\* ---------------------------------------------------------------- operands

\* A dense r-by-c matrix stored row-major; its k-th stored element is k + 1,
\* so that all elements of one matrix differ and none is 0 or 1.
Mat(r, c) == [r |-> r, c |-> c, data |-> [k \in 1..(r * c) |-> k + 1]]

\* Matrix.At(i, j): the element, or a panic when i or j is out of bounds.
At(m, i, j) ==
    IF i < 0 \/ i >= m.r \/ j < 0 \/ j >= m.c
    THEN [ok |-> FALSE, v |-> 0]
    ELSE [ok |-> TRUE, v |-> m.data[i * m.c + j + 1]]

\* The operands a call can be given: vectors (one column) and matrices.
Matrices == {Mat(r, c) : r \in 1..MaxDim, c \in 1..MaxDim}

OperandLists == UNION {[1..n -> Matrices] : n \in 0..MaxOperands}

\* ----------------------------------------------------------------- counters

\* A freshly built einsumCounter: v and dim hold their zero values.
Counter(r, free) == [r |-> r, free |-> free, v |-> 0, dim |-> 0]

\* The position of the first occurrence of r in the letter sequence in,
\* counted from 0, or -1: the inner loop of dimOf with its break.
Match(in, r) ==
    IF \E l \in 1..Len(in) : in[l] = r
    THEN (CHOOSE l \in 1..Len(in) :
            in[l] = r /\ \A l2 \in 1..(l - 1) : in[l2] # r) - 1
    ELSE -1

RECURSIVE DimFrom(_, _, _, _, _)
\* dimOf's loop over the inputs from input i (counted from 1) with the
\* dimension found so far; a panic ends it.
DimFrom(o, r, operands, i, dim) ==
    IF i > Len(o.inputs) THEN [dim |-> dim, err |-> "none"]
    ELSE LET match == Match(o.inputs[i], r)
         IN  IF match = -1 THEN DimFrom(o, r, operands, i + 1, dim)
             ELSE IF match > 1 THEN [dim |-> dim, err |-> "rank"]
             ELSE IF i > Len(operands) THEN [dim |-> dim, err |-> "index"]
             ELSE LET v == IF match = 0 THEN operands[i].r ELSE operands[i].c
                  IN  IF dim = 0 THEN DimFrom(o, r, operands, i + 1, v)
                      ELSE IF dim # v
                      THEN [dim |-> dim, err |-> "dim_mismatch"]
                      ELSE DimFrom(o, r, operands, i + 1, dim)

\* einsumOps.dimOf(r, operands).
dimOf(o, r, operands) == DimFrom(o, r, operands, 1, 0)

\* The orders in which ranging over the map o.all can deliver the letters
\* that are not free: Go leaves the iteration order of a map unspecified.
MapOrders(S) ==
    {f \in [1..Cardinality(S) -> S] :
        \A a, b \in 1..Cardinality(S) : a # b => f[a] # f[b]}

\* FillCounters with the summed letters' counters marked free like the
\* output letters' counters.
FillCountersAllFree(o, order) ==
    LET n == Cardinality(o.all)
    IN  IF Len(o.output) > n \/ Len(o.output) + Len(order) > n
        THEN [c |-> <<>>, err |-> "index"]
        ELSE [c |-> [k \in 1..n |->
                       IF k <= Len(o.output)
                       THEN Counter(o.output[k], TRUE)
                       ELSE IF k <= Len(o.output) + Len(order)
                       THEN Counter(order[k - Len(o.output)], TRUE)
                       ELSE Counter("NUL", FALSE)],
              err |-> "none"]

\* The counter slice after executor's two filling loops, or the panic of an
\* assignment past the end of the slice, which has len(o.all) slots.
FillCounters(o, order) ==
    LET n == Cardinality(o.all)
    IN  IF Len(o.output) > n \/ Len(o.output) + Len(order) > n
        THEN [c |-> <<>>, err |-> "index"]
        ELSE [c |-> [k \in 1..n |->
                       IF k <= Len(o.output)
                       THEN Counter(o.output[k], TRUE)
                       ELSE IF k <= Len(o.output) + Len(order)
                       THEN Counter(order[k - Len(o.output)], FALSE)
                       ELSE Counter("NUL", FALSE)],
              err |-> "none"]

RECURSIVE ResolveFrom(_, _, _, _, _)
\* executor's last loop from counter i: set each counter's dim with dimOf
\* and collect the dims of the free counters.
ResolveFrom(o, operands, c, i, outputDim) ==
    IF i > Len(c) THEN [c |-> c, dim |-> outputDim, err |-> "none"]
    ELSE LET d == dimOf(o, c[i].r, operands)
         IN  IF d.err # "none" THEN [c |-> c, dim |-> outputDim, err |-> d.err]
             ELSE ResolveFrom(o, operands, [c EXCEPT ![i].dim = d.dim], i + 1,
                              IF c[i].free THEN Append(outputDim, d.dim)
                              ELSE outputDim)

\* einsumOps.executor(operands) when the map o.all is ranged over in order.
executor(o, operands, order) ==
    LET f == FillCounters(o, order)
    IN  IF f.err # "none" THEN [c |-> <<>>, dim |-> <<>>, err |-> f.err]
        ELSE ResolveFrom(o, operands, f.c, 1, <<>>)

RECURSIVE Prod(_)
\* The product of a sequence of numbers, 1 when it is empty.
Prod(s) == IF s = <<>> THEN 1 ELSE Head(s) * Prod(Tail(s))

RECURSIVE SumOf(_)
\* The sum of a sequence of numbers.
SumOf(s) == IF s = <<>> THEN 0 ELSE Head(s) + SumOf(Tail(s))

\* outputZeros with each size added to the total instead of multiplied.
outputZerosAdded(dim) == [k \in 1..(1 + SumOf(dim)) |-> 0]

\* einsumOps.outputZeros(dim).
outputZeros(dim) == [k \in 1..Prod(dim) |-> 0]

RECURSIVE OutputIdxFrom(_, _, _, _)
\* outputIdx's loop at counter i, walking backwards.
OutputIdxFrom(c, i, idx, jumpSize) ==
    IF i < 1 THEN idx
    ELSE IF ~c[i].free THEN OutputIdxFrom(c, i - 1, idx, jumpSize)
    ELSE OutputIdxFrom(c, i - 1, idx + c[i].v * jumpSize, jumpSize * c[i].dim)

RECURSIVE OutputIdxForwardFrom(_, _, _, _)
\* outputIdx's loop walking forwards from counter i, so that the first free
\* counter has the smallest stride.
OutputIdxForwardFrom(c, i, idx, jumpSize) ==
    IF i > Len(c) THEN idx
    ELSE IF ~c[i].free THEN OutputIdxForwardFrom(c, i + 1, idx, jumpSize)
    ELSE OutputIdxForwardFrom(c, i + 1, idx + c[i].v * jumpSize,
                              jumpSize * c[i].dim)

\* outputIdx with the counters walked forwards.
outputIdxForward(c) == OutputIdxForwardFrom(c, 1, 0, 1)

\* einsumExecutor.outputIdx.
outputIdx(c) == OutputIdxFrom(c, Len(c), 0, 1)

\* einsumExecutor.counterValFor(r): the value of the first counter for r,
\* -1 standing for the panic when there is none.
counterValFor(c, r) ==
    IF \E k \in 1..Len(c) : c[k].r = r
    THEN c[CHOOSE k \in 1..Len(c) :
             c[k].r = r /\ \A k2 \in 1..(k - 1) : c[k2].r # r].v
    ELSE -1

RECURSIVE IncrementFrom(_, _)
\* increment's loop at counter idx, walking backwards.
IncrementFrom(e, idx) ==
    IF idx < 1 THEN e
    ELSE IF e.c[idx].v + 1 < e.c[idx].dim
    THEN [e EXCEPT !.c[idx].v = @ + 1]
    ELSE IF idx = 1 THEN [e EXCEPT !.done = TRUE]
    ELSE IncrementFrom([e EXCEPT !.c[idx].v = 0], idx - 1)

\* increment that reports done as soon as the last counter is at its
\* maximum, without carrying into the counter above.
incrementNoCarry(e) ==
    IF Len(e.c) < 1 THEN e
    ELSE IF e.c[Len(e.c)].v + 1 < e.c[Len(e.c)].dim
    THEN [e EXCEPT !.c[Len(e.c)].v = @ + 1]
    ELSE [e EXCEPT !.done = TRUE]

\* einsumExecutor.increment.
increment(e) == IncrementFrom(e, Len(e.c))

\* Fetch with the two indexes of a matrix element exchanged.
FetchTransposed(m, in, c) ==
    LET indexes == [l \in 1..Len(in) |-> counterValFor(c, in[l])]
    IN  IF \E l \in 1..Len(in) : indexes[l] = -1
        THEN [ok |-> FALSE, v |-> 0, err |-> "no_counter"]
        ELSE LET e == IF Len(indexes) = 1 THEN At(m, indexes[1], 0)
                      ELSE At(m, indexes[2], indexes[1])
             IN  [ok |-> e.ok, v |-> e.v,
                  err |-> IF e.ok THEN "none" ELSE "access"]

\* The element one operand contributes in the drive loop: At(indexes[0], 0)
\* for one index, At(indexes[0], indexes[1]) otherwise.
Fetch(m, in, c) ==
    LET indexes == [l \in 1..Len(in) |-> counterValFor(c, in[l])]
    IN  IF \E l \in 1..Len(in) : indexes[l] = -1
        THEN [ok |-> FALSE, v |-> 0, err |-> "no_counter"]
        ELSE LET e == IF Len(indexes) = 1 THEN At(m, indexes[1], 0)
                      ELSE At(m, indexes[1], indexes[2])
             IN  [ok |-> e.ok, v |-> e.v,
                  err |-> IF e.ok THEN "none" ELSE "access"]

RECURSIVE CurFromInputs(_, _, _, _, _, _)
\* The inner loop ranging over the parsed letter sequences instead of the
\* operands: operands past the last letter sequence are left out.
CurFromInputs(o, c, operands, i, cur, n) ==
    IF i > Len(operands) \/ i > Len(o.inputs)
    THEN [cur |-> cur, reads |-> n, err |-> "none"]
    ELSE LET e == Fetch(operands[i], o.inputs[i], c)
         IN  IF ~e.ok THEN [cur |-> cur, reads |-> n, err |-> e.err]
             ELSE CurFromInputs(o, c, operands, i + 1, cur * e.v, n + 1)

RECURSIVE CurFrom(_, _, _, _, _, _)
\* The drive loop's inner loop over the operands from operand i, with the
\* product and the number of elements read so far.
CurFrom(o, c, operands, i, cur, n) ==
    IF i > Len(operands) THEN [cur |-> cur, reads |-> n, err |-> "none"]
    ELSE IF i > Len(o.inputs) THEN [cur |-> cur, reads |-> n, err |-> "index"]
    ELSE LET e == Fetch(operands[i], o.inputs[i], c)
         IN  IF ~e.ok THEN [cur |-> cur, reads |-> n, err |-> e.err]
             ELSE CurFrom(o, c, operands, i + 1, cur * e.v, n + 1)

\* --------------------------------------------------------------- subscripts

\* "a,b,...->out" as a rune sequence.
Compose(ins, out) ==
    Concat([x \in 1..Len(ins) |->
              IF x < Len(ins) THEN ins[x] \o <<",">> ELSE ins[x]])
    \o <<"-", ">">> \o out

\* Letter sequences of one operand: vectors, matrices, a repeated letter
\* (the diagonal), and three letters with and without a repeated one.
GenSeqs ==
    {<<"i">>, <<"j">>, <<"i", "i">>, <<"i", "j">>, <<"j", "i">>,
     <<"i", "j", "i">>, <<"i", "j", "k">>}

GenInputs ==
    {<<>>} \cup {<<a>> : a \in GenSeqs} \cup {<<a, b>> : a, b \in GenSeqs}

GenOutputs ==
    {<<>>, <<"i">>, <<"j">>, <<"i", "j">>, <<"j", "i">>, <<"i", "i">>}

\* The subscripts of TestEinsum and ExampleEinsum that use three letters,
\* a contraction of every letter, and strings without "->".
MoreSubscripts ==
    {Compose(<<<<"i", "k">>, <<"k", "j">>>>, <<"i", "j">>),
     Compose(<<<<"i", "j">>, <<"j", "k">>>>, <<"i", "k">>),
     Compose(<<<<"i", "j">>, <<"k", "j">>>>, <<"i", "k", "j">>),
     Compose(<<<<"i", "j">>, <<"j", "k">>>>, <<>>),
     <<>>, <<" ">>, <<"i", ",", "i">>, <<"i", ">", "i">>}

Subscripts ==
    {Compose(ins, out) : ins \in GenInputs, out \in GenOutputs}
    \cup MoreSubscripts

\* -------------------------------------------------------------------- state

VARIABLES
    subscripts,  \* the subscript string of the call (SpecParse: read so far)
    operands,    \* the operands of the call
    pc,          \* where the call is
    o,           \* the einsumOps being parsed, then the parsed one
    exc,         \* the einsumExecutor: counters c and done
    dim,         \* the output dimensions executor returned
    out,         \* the output values
    err,         \* the panic that ended the call, "none" when none did
    iter,        \* drive-loop iterations begun
    reads,       \* operand elements read by the drive loop
    idxs,        \* the output indexes accumulated into, in order
    str,         \* SpecParse: the rendering of the parsed einsumOps
    prev         \* the counters and the result of an earlier identical call

vars ==
    <<subscripts, operands, pc, o, exc, dim, out, err, iter, reads, idxs, str,
      prev>>

NoExecutor == [c |-> <<>>, done |-> FALSE]

NoPrev == [valid |-> FALSE, letters |-> <<>>, dim |-> <<>>, out |-> <<>>]

\* The letters of the counters, in the executor's order.
CounterLetters(c) == [k \in 1..Len(c) |-> c[k].r]

\* A call Einsum(subscripts, operands...) about to start.
Init ==
    /\ subscripts \in Subscripts
    /\ operands \in OperandLists
    /\ pc = "start"
    /\ o = NewOps
    /\ exc = NoExecutor
    /\ dim = <<>>
    /\ out = <<>>
    /\ err = "none"
    /\ iter = 0
    /\ reads = 0
    /\ idxs = <<>>
    /\ str = <<>>
    /\ prev = NoPrev

\* ops := parseEinsum(subscripts)
ParseCall ==
    /\ pc = "start"
    /\ o' = parseEinsum(subscripts)
    /\ err' = o'.err
    /\ pc' = IF o'.err = "none" THEN "parsed" ELSE "panicked"
    /\ UNCHANGED <<subscripts, operands, exc, dim, out, iter, reads, idxs, str,
                   prev>>

\* The call with the executor's panic surfacing only after the output buffer
\* is allocated and a first iteration of the drive loop has run.
ExecutorCallLate ==
    /\ pc = "parsed"
    /\ \E order \in MapOrders(o.all \ o.free) :
         LET res == executor(o, operands, order)
         IN  IF res.err # "none"
             THEN /\ pc' = "panicked"
                  /\ err' = res.err
                  /\ out' = outputZeros(res.dim)
                  /\ iter' = iter + 1
                  /\ UNCHANGED <<exc, dim>>
             ELSE /\ pc' = "loop"
                  /\ exc' = [c |-> res.c, done |-> FALSE]
                  /\ dim' = res.dim
                  /\ out' = outputZeros(res.dim)
                  /\ UNCHANGED <<err, iter>>
    /\ UNCHANGED <<subscripts, operands, o, reads, idxs, str, prev>>

\* exc, dim := ops.executor(operands); out := ops.outputZeros(dim)
ExecutorCall ==
    /\ pc = "parsed"
    /\ \E order \in MapOrders(o.all \ o.free) :
         LET res == executor(o, operands, order)
         IN  IF res.err # "none"
             THEN /\ pc' = "panicked"
                  /\ err' = res.err
                  /\ UNCHANGED <<exc, dim, out>>
             ELSE /\ pc' = "loop"
                  /\ exc' = [c |-> res.c, done |-> FALSE]
                  /\ dim' = res.dim
                  /\ out' = outputZeros(res.dim)
                  /\ UNCHANGED err
    /\ UNCHANGED <<subscripts, operands, o, iter, reads, idxs, str, prev>>

\* One iteration of the drive loop: the body, then exc.increment().
LoopStep ==
    /\ pc = "loop"
    /\ ~exc.done
    /\ iter < MaxIter
    /\ iter' = iter + 1
    /\ LET idx == outputIdx(exc.c)
           cur == CurFrom(o, exc.c, operands, 1, 1, 0)
       IN  /\ reads' = reads + cur.reads
           /\ IF cur.err # "none"
              THEN /\ pc' = "panicked"
                   /\ err' = cur.err
                   /\ UNCHANGED <<out, exc, idxs>>
              ELSE IF idx >= Len(out)
              THEN /\ pc' = "panicked"
                   /\ err' = "index"
                   /\ UNCHANGED <<out, exc, idxs>>
              ELSE /\ out' = [out EXCEPT ![idx + 1] = @ + cur.cur]
                   /\ idxs' = Append(idxs, idx)
                   /\ exc' = increment(exc)
                   /\ UNCHANGED <<pc, err>>
    /\ UNCHANGED <<subscripts, operands, o, dim, str, prev>>

\* return dim, out
Return ==
    /\ pc = "loop"
    /\ exc.done
    /\ pc' = "returned"
    /\ UNCHANGED <<subscripts, operands, o, exc, dim, out, err, iter, reads,
                   idxs, str, prev>>

\* The caller calls Einsum again with the same subscripts and operands,
\* as einsumBench does, keeping what the first call built and returned.
CallAgain ==
    /\ pc = "returned"
    /\ ~prev.valid
    /\ prev' = [valid |-> TRUE, letters |-> CounterLetters(exc.c),
                dim |-> dim, out |-> out]
    /\ pc' = "start"
    /\ o' = NewOps
    /\ exc' = NoExecutor
    /\ dim' = <<>>
    /\ out' = <<>>
    /\ iter' = 0
    /\ reads' = 0
    /\ idxs' = <<>>
    /\ UNCHANGED <<subscripts, operands, err, str>>

Next == ParseCall \/ ExecutorCall \/ LoopStep \/ Return \/ CallAgain

Spec == Init /\ [][Next]_vars

\* ------------------------------------------------------ the parser, by rune

\* parseEinsum before its reader has delivered a rune.
InitParse ==
    /\ subscripts = <<>>
    /\ operands = <<>>
    /\ pc = "reading"
    /\ o = NewOps
    /\ exc = NoExecutor
    /\ dim = <<>>
    /\ out = <<>>
    /\ err = "none"
    /\ iter = 0
    /\ reads = 0
    /\ idxs = <<>>
    /\ str = <<>>
    /\ prev = NoPrev

\* rdr.ReadRune() delivers rune r and the loop body runs on it.
ReadRune ==
    /\ pc = "reading"
    /\ Len(subscripts) < MaxLen
    /\ \E r \in Chars :
         /\ subscripts' = Append(subscripts, r)
         /\ o' = ParseRune(o, r)
    /\ err' = o'.err
    /\ pc' = IF o'.err = "none" THEN "reading" ELSE "panicked"
    /\ UNCHANGED <<operands, exc, dim, out, iter, reads, idxs, str, prev>>

\* rdr.ReadRune() returns io.EOF: the loop ends and parseEinsum returns o.
ReadEOF ==
    /\ pc = "reading"
    /\ pc' = "parsed"
    /\ UNCHANGED <<subscripts, operands, o, exc, dim, out, err, iter, reads,
                   idxs, str, prev>>

\* str := ops.String(), as TestEinsumParse does with the parsed value.
Render ==
    /\ pc = "parsed"
    /\ str' = String(o)
    /\ pc' = "rendered"
    /\ UNCHANGED <<subscripts, operands, o, exc, dim, out, err, iter, reads,
                   idxs, prev>>

NextParse == ReadRune \/ ReadEOF \/ Render

SpecParse == InitParse /\ [][NextParse]_vars

\* ------------------------------------------- what a contraction should be

\* The extent the counters hold for letter r.
Extent(c, r) == c[CHOOSE k \in 1..Len(c) : c[k].r = r].dim

\* Every combination of index values within the counters' extents.
Combinations(c) ==
    LET L == {c[k].r : k \in 1..Len(c)}
    IN  {f \in [L -> 0..MaxDim] : \A r \in L : f[r] < Extent(c, r)}

\* The row-major cell of combination f: each output letter's value times
\* the product of the extents of the output letters after it.
RowMajorCell(output, c, f) ==
    LET stride(k) ==
            Prod([x \in 1..(Len(output) - k) |-> Extent(c, output[k + x])])
        RECURSIVE Sum(_)
        Sum(k) == IF k > Len(output) THEN 0
                  ELSE f[output[k]] * stride(k) + Sum(k + 1)
    IN  Sum(1)

\* The product over the operands of the element combination f addresses:
\* (value, 0) for one letter, (first value, second value) for two.
Term(ins, ops, f) ==
    Prod([x \in 1..Len(ops) |->
            IF Len(ins[x]) = 1
            THEN ops[x].data[f[ins[x][1]] * ops[x].c + 1]
            ELSE ops[x].data[f[ins[x][1]] * ops[x].c + f[ins[x][2]] + 1]])

RECURSIVE SumTerms(_, _, _)
\* The sum of Term over the combinations S.
SumTerms(S, ins, ops) ==
    IF S = {} THEN 0
    ELSE LET f == CHOOSE x \in S : TRUE
         IN  Term(ins, ops, f) + SumTerms(S \ {f}, ins, ops)

\* Every operand's letter sequence has one or two letters.
RankAtMostTwo == \A x \in 1..Len(o.inputs) : Len(o.inputs[x]) <= 2

\* ------------------------------------------------------------------ claims

\* C1: when Einsum returns, the value at the output cell of every
\* combination of free-index values is the sum, over the combinations of
\* summed-index values, of the product of the addressed operand elements.
C1_SumOfProducts ==
    (pc = "returned" /\ RankAtMostTwo) =>
        \A g \in Combinations(exc.c) :
            out[RowMajorCell(o.output, exc.c, g) + 1] =
                SumTerms({f \in Combinations(exc.c) :
                            \A r \in o.free : f[r] = g[r]},
                         o.inputs, operands)

\* "ik,kj->ij" on two 2-by-2 matrices has returned their matrix product.
C1_Witness ==
    /\ pc = "returned"
    /\ o.inputs = <<<<"i", "k">>, <<"k", "j">>>>
    /\ o.output = <<"i", "j">>
    /\ operands = <<Mat(2, 2), Mat(2, 2)>>
    /\ out = <<16, 21, 28, 37>>

\* C2: in every state of the odometer during an evaluation, outputIdx is the
\* row-major index of the free counters and lies within the output buffer,
\* 0 .. (product of the free extents) - 1.
C2_OutputIdxInBounds ==
    pc = "loop" =>
        LET now == [r \in {exc.c[k].r : k \in 1..Len(exc.c)} |->
                      counterValFor(exc.c, r)]
        IN  /\ outputIdx(exc.c) = RowMajorCell(o.output, exc.c, now)
            /\ outputIdx(exc.c) >= 0
            /\ outputIdx(exc.c) <= Prod(dim) - 1
            /\ outputIdx(exc.c) < Len(out)

\* C3: the returned shape has one entry per distinct output letter, each the
\* extent dimOf resolves for that letter, in output order, and the returned
\* values have as many elements as the product of the shape.
C3_ShapeOfOutput ==
    pc = "returned" =>
        /\ Len(dim) = Cardinality({o.output[k] : k \in 1..Len(o.output)})
        /\ Len(dim) = Len(o.output)
        /\ \A k \in 1..Len(dim) : dim[k] = dimOf(o, o.output[k], operands).dim
        /\ Len(out) = Prod(dim)

\* An outer product "i,j->ij" of vectors of different lengths has returned.
C3_Witness ==
    /\ pc = "returned"
    /\ o.output = <<"i", "j">>
    /\ Len(dim) = 2
    /\ dim[1] # dim[2]

\* The subscript without its whitespace.
StripSpaces(s) == SelectSeq(s, LAMBDA r : r \notin Spaces)

\* One or more comma-separated non-empty letter sequences, then "->", then
\* a possibly empty letter sequence, whitespace allowed anywhere.
WellFormed(s) ==
    LET t == StripSpaces(s)
    IN  \E p \in 2..(Len(t) - 1) :
          /\ t[p] = "-" /\ t[p + 1] = ">"
          /\ \A q \in (p + 2)..Len(t) : t[q] \in Letters
          /\ \A q \in 1..(p - 1) : t[q] \in Letters \cup {","}
          /\ t[1] \in Letters /\ t[p - 1] \in Letters
          /\ \A q \in 1..(p - 2) : ~(t[q] = "," /\ t[q + 1] = ",")

\* C4: for a well-formed subscript string, String() of what parseEinsum
\* returns is the string with its whitespace removed.
C4_RoundTrip ==
    (pc = "rendered" /\ WellFormed(subscripts)) =>
        str = StripSpaces(subscripts)

\* A well-formed string with two operands and whitespace has been rendered.
C4_Witness ==
    /\ pc = "rendered"
    /\ WellFormed(subscripts)
    /\ Len(o.inputs) = 2
    /\ \E q \in 1..Len(subscripts) : subscripts[q] \in Spaces

\* The size of the axis of operand m that position p (1 or 2) binds.
Axis(m, p) == IF p = 1 THEN m.r ELSE m.c

\* Some letter is bound in two different operands to axes of different sizes.
BoundToDifferentSizes ==
    \E a, b \in 1..Len(o.inputs) :
      /\ a # b
      /\ \E p \in 1..Len(o.inputs[a]) : \E q \in 1..Len(o.inputs[b]) :
           /\ o.inputs[a][p] = o.inputs[b][q]
           /\ Axis(operands[a], p) # Axis(operands[b], q)

\* The call has no other defect: as many operands as letter sequences, one
\* or two letters each, and output letters distinct and bound by an input.
NoOtherDefect ==
    /\ o.err = "none"
    /\ Len(operands) = Len(o.inputs)
    /\ RankAtMostTwo
    /\ \A k, k2 \in 1..Len(o.output) : k # k2 => o.output[k] # o.output[k2]
    /\ \A k \in 1..Len(o.output) :
         \E x \in 1..Len(o.inputs) : \E l \in 1..Len(o.inputs[x]) :
            o.inputs[x][l] = o.output[k]

\* C5: whenever a letter is bound in two different operands to axes of
\* different sizes, Einsum ends in the dimension-mismatch panic and never
\* returns a result.
C5_MismatchFails ==
    (pc \in {"returned", "panicked"} /\ NoOtherDefect /\ BoundToDifferentSizes)
        => (pc = "panicked" /\ err = "dim_mismatch")

\* C6: every call terminates.  The drive loop is deterministic in the
\* executor, so it terminates only if every iteration that leaves the call in
\* the loop has advanced the odometer: changed a counter or set done.
C6_Terminates ==
    [][(pc = "loop" /\ pc' = "loop" /\ iter' = iter + 1)
          => (exc'.done \/ exc'.c # exc.c)]_vars

\* C7: a call that ends in a parse panic or a dimension-mismatch panic has
\* begun no iteration of the drive loop, read no operand element and
\* has no output buffer.
C7_ErrorsBeforeLoop ==
    err \in {"parse", "dim_mismatch"} =>
        /\ pc = "panicked"
        /\ iter = 0
        /\ reads = 0
        /\ out = <<>>
        /\ exc = NoExecutor

\* A call has ended in the dimension-mismatch panic of dimOf.
C7_Witness ==
    /\ pc = "panicked"
    /\ err = "dim_mismatch"
    /\ Len(operands) = 2

\* C8: with no output letters Einsum returns an empty shape and one value,
\* the sum over every combination of all letters of the product of the
\* addressed operand elements.
C8_ScalarOutput ==
    (pc = "returned" /\ o.output = <<>> /\ RankAtMostTwo) =>
        /\ dim = <<>>
        /\ Len(out) = 1
        /\ out[1] = SumTerms(Combinations(exc.c), o.inputs, operands)

\* "i,i->" on two vectors (2, 3) has returned their inner product, 13.
C8_Witness ==
    /\ pc = "returned"
    /\ o.inputs = <<<<"i">>, <<"i">>>>
    /\ o.output = <<>>
    /\ operands = <<Mat(2, 1), Mat(2, 1)>>
    /\ dim = <<>>
    /\ out = <<13>>

\* C9: a second call with the same subscripts and operands builds the same
\* counter sequence as the first, so visits the combinations in the same
\* order, and returns the same shape and values.
C9_SameCounterSequence ==
    (prev.valid /\ pc \in {"loop", "returned"}) =>
        /\ CounterLetters(exc.c) = prev.letters
        /\ pc = "returned" => (dim = prev.dim /\ out = prev.out)

\* C10: parseEinsum returns no specification with zero operand letter
\* sequences.
C10_ZeroOperandsFail ==
    pc \in {"parsed", "rendered"} => Len(o.inputs) > 0

\* C11: parseEinsum accepts '-' only as the first half of "->": a parse that
\* returns has met no '-' followed by another rune or by the end of input.
C11_DashOnlyBeforeGt ==
    pc \in {"parsed", "rendered"} =>
        LET t == StripSpaces(subscripts)
        IN  \A q \in 1..Len(t) :
              t[q] = "-" => (q < Len(t) /\ t[q + 1] = ">")

\* Every output letter occurs once in the output and in some input.
OutputBound ==
    /\ \A k, k2 \in 1..Len(o.output) : k # k2 => o.output[k] # o.output[k2]
    /\ \A k \in 1..Len(o.output) :
         \E x \in 1..Len(o.inputs) : \E l \in 1..Len(o.inputs[x]) :
            o.inputs[x][l] = o.output[k]

\* Wherever a letter stands at the first or second place of operands'
\* letter sequences, the axes it binds have one size.
SizesAgree ==
    \A a, b \in 1..Len(o.inputs) :
      \A p \in 1..Len(o.inputs[a]) : \A q \in 1..Len(o.inputs[b]) :
        (p <= 2 /\ q <= 2 /\ o.inputs[a][p] = o.inputs[b][q])
            => Axis(operands[a], p) = Axis(operands[b], q)

\* Some operand's letter sequence has a letter at position 2 or later
\* (counted from 0): three letters or more.
SomeRankAboveTwo == \E x \in 1..Len(o.inputs) : Len(o.inputs[x]) >= 3

\* C12: whenever some operand has three or more letters, a repeated letter
\* included, Einsum ends in the unsupported-rank panic and returns nothing.
C12_RankAboveTwoFails ==
    (/\ pc \in {"returned", "panicked"}
     /\ o.err = "none"
     /\ Len(operands) = Len(o.inputs)
     /\ OutputBound
     /\ SizesAgree
     /\ SomeRankAboveTwo)
        => (pc = "panicked" /\ err = "rank")

\* Some output letter occurs in no operand's letter sequence.
UnboundOutputLetter ==
    \E k \in 1..Len(o.output) :
      \A x \in 1..Len(o.inputs) : \A l \in 1..Len(o.inputs[x]) :
         o.inputs[x][l] # o.output[k]

\* C13: for an output letter that no operand binds, dimOf reports an error
\* instead of an extent: executor never hands back counters for such a
\* subscript, and Einsum returns no result.
C13_UnboundLetterFails ==
    (/\ o.err = "none"
     /\ Len(o.inputs) >= 1
     /\ Len(operands) = Len(o.inputs)
     /\ UnboundOutputLetter)
        => pc \notin {"loop", "returned"}

RECURSIVE MixedRadixFrom(_, _, _)
\* The counter values from counter i on, read as the digits of a mixed-radix
\* number whose places are the extents, the first counter most significant.
MixedRadixFrom(c, i, acc) ==
    IF i > Len(c) THEN acc
    ELSE MixedRadixFrom(c, i + 1, acc * c[i].dim + c[i].v)

\* The place of a counter-value combination in lexicographic order.
MixedRadix(c) == MixedRadixFrom(c, 1, 0)

\* C14: every increment of the drive loop either moves the counters to the
\* next combination in lexicographic order, the first counter most
\* significant, and leaves done false, or sets done, and then it was taken
\* from the combination where every counter holds extent-1: from all zeros
\* the odometer visits each of the product-of-extents combinations once.
C14_OdometerOrder ==
    [][(pc = "loop" /\ pc' = "loop" /\ iter' = iter + 1) =>
          IF exc'.done
          THEN \A k \in 1..Len(exc.c) : exc.c[k].v = exc.c[k].dim - 1
          ELSE MixedRadix(exc'.c) = MixedRadix(exc.c) + 1]_vars

\* C15: once the executor is constructed, and after any number of
\* increments, every counter holds a value with 0 <= value < extent.
C15_CounterInRange ==
    pc \in {"loop", "returned"} =>
        \A k \in 1..Len(exc.c) : 0 <= exc.c[k].v /\ exc.c[k].v < exc.c[k].dim

\* C16: the result does not depend on where the summed letters' counters
\* stand after the free counters: two calls with the same subscripts and
\* operands return the same shape and the same values, whatever order the
\* map delivered the summed letters in.
C16_SummedOrderIrrelevant ==
    (prev.valid /\ pc = "returned") => (dim = prev.dim /\ out = prev.out)

\* Two returned calls whose counter sequences order two summed letters
\* differently, over operands that are not all 1x1.
C16_Witness ==
    /\ prev.valid
    /\ pc = "returned"
    /\ CounterLetters(exc.c) # prev.letters
    /\ Cardinality(o.all \ o.free) >= 2
    /\ Len(out) >= 1
    /\ \E x \in 1..Len(operands) : operands[x].r * operands[x].c > 1

\* Some operand has a two-letter sequence that repeats one letter, and its
\* row count differs from its column count.
RepeatedLetterNonSquare ==
    \E x \in 1..Len(o.inputs) :
       /\ x <= Len(operands)
       /\ Len(o.inputs[x]) = 2
       /\ o.inputs[x][1] = o.inputs[x][2]
       /\ operands[x].r # operands[x].c

\* C17: when a letter occurs twice in one operand's letter sequence and that
\* operand is not square, dimOf compares the extents at both positions and
\* Einsum ends in the dimension-mismatch panic.
C17_RepeatedLetterCompared ==
    (/\ pc \in {"returned", "panicked"}
     /\ o.err = "none"
     /\ Len(operands) = Len(o.inputs)
     /\ OutputBound
     /\ RankAtMostTwo
     /\ RepeatedLetterNonSquare)
        => (pc = "panicked" /\ err = "dim_mismatch")

\* C18: once parseEinsum is in Output mode no rune takes it back to an input
\* mode and the operands' letter sequences no longer change: a ',' after
\* "->" stops the parse instead.
C18_OutputModeIsFinal ==
    [][(pc = "reading" /\ o.mode = opsParseModeOutput) =>
          (o'.mode = opsParseModeOutput /\ o'.inputs = o.inputs)]_vars

\* The product of the extents of the counters of summed letters.
SummedProduct(c) ==
    Prod([k \in 1..Len(c) |-> IF c[k].free THEN 1 ELSE c[k].dim])

\* C19: in a call that returns, every output cell was accumulated into
\* exactly product-of-summed-extents times (once when nothing is summed), and
\* the output index of successive iterations never decreased, so that the
\* accumulations into one cell are consecutive.
C19_CellsAccumulatedInRuns ==
    /\ \A k \in 1..(Len(idxs) - 1) : idxs[k] <= idxs[k + 1]
    /\ pc = "returned" =>
         \A cell \in 0..(Len(out) - 1) :
            Cardinality({k \in 1..Len(idxs) : idxs[k] = cell})
                = SummedProduct(exc.c)

\* A returned call with several output cells and several summed
\* combinations for each.
C19_Witness ==
    /\ pc = "returned"
    /\ Len(out) > 1
    /\ SummedProduct(exc.c) > 1
    /\ Len(idxs) = Len(out) * SummedProduct(exc.c)

\* C20: when the number of operands differs from the number of parsed
\* operand letter sequences, fewer or more, Einsum never returns and never
\* accumulates a value into the output.
C20_OperandCountMismatchFails ==
    (/\ pc \notin {"start", "reading"}
     /\ o.err = "none"
     /\ Len(operands) # Len(o.inputs))
        => (pc # "returned" /\ idxs = <<>>)

\* A call with more operands than letter sequences whose executor was built
\* and whose first iteration of the drive loop panicked.
C20_Witness ==
    /\ pc = "panicked"
    /\ o.err = "none"
    /\ Len(o.inputs) >= 1
    /\ Len(operands) > Len(o.inputs)
    /\ Len(exc.c) >= 1
    /\ iter = 1
    /\ err = "index"

====
